---- MODULE Spec2Model ----
(***************************************************************************)
(* The release tool of mongo-tools (release/release.go), subcommand        *)
(* upload-release: one run of uploadRelease(v) as a sequential state       *)
(* machine.  The collaborators it calls (evergreen, platform, aws,         *)
(* version, env, the HTTP server, the local file system) answer            *)
(* nondeterministically; the control flow, the file names, the checksum    *)
(* records and the feed are those of release.go.                           *)
(*                                                                         *)
(* A string is a sequence of tokens, each token a run of characters; the   *)
(* characters "." and "/" are always tokens of their own, so that          *)
(* path.Ext and fmt.Sprintf are computed, not assumed.                     *)
(***************************************************************************)
EXTENDS Integers, Sequences, FiniteSets, TLC

VARIABLES
    pc,         \* position in uploadRelease
    isPatch,    \* what env.EvgIsPatch() answers in this run
    v,          \* the version.Version handed to uploadRelease
    tasks,      \* the tasks of GetTasksForRevision the filter loop has yet to visit
    signTasks,  \* signTasks, the accepted sign tasks
    ti,         \* index of the task the upload loop is at (1-based)
    artifacts,  \* artifacts of the current task
    ai,         \* index of the artifact the inner loop is at (1-based)
    dl,         \* the download.ToolsDownload of the current task
    dls,        \* dls, the accumulated ToolsDownloads
    fs,         \* the local files written so far: file name -> bytes
    feedFile,   \* release.json: <<>> until written, then <<feed>>
    uploads,    \* every awsClient.UploadFile call so far, in order, with its outcome
    fatal,      \* message of the log.Fatal that ended the run, "" if none
    cmd,        \* the subcommand main was started with
    bpc,        \* position in the packaging subcommands
    bpf,        \* pf, what platform.GetFromEnv() answers in this run
    cv,         \* what version.GetCurrent() answers in this run
    cwd,        \* the working directory of the process
    cur,        \* cur, the directory the cdBack of useWorkingDir goes to
    disk,       \* the files written by packaging so far: path -> content
    runs,       \* the external tools run so far, in order
    tmpl,       \* the metadata template last read
    bfatal      \* message of the log.Fatal that ended packaging, "" if none

\* The state of uploadRelease and the state of the packaging subcommands.
release == <<pc, isPatch, v, tasks, signTasks, ti, artifacts, ai, dl, dls, fs,
             feedFile, uploads, fatal>>
build == <<cmd, bpc, bpf, cv, cwd, cur, disk, runs, tmpl, bfatal>>

vars == <<pc, isPatch, v, tasks, signTasks, ti, artifacts, ai, dl, dls, fs,
          feedFile, uploads, fatal, cmd, bpc, bpf, cv, cwd, cur, disk, runs,
          tmpl, bfatal>>

---------------------------------------------------------------------------
\* Bounds of the model.

\* Longest metadata template, in pieces.
MaxTemplateLen == 3

\* Longest task list GetTasksForRevision answers.
MaxTasks == 3

\* Longest artifact list GetArtifactsForTask answers.
MaxArtifacts == 2

\* Most UploadFile calls of one run that report failure.
MaxUploadFailures == 1

---------------------------------------------------------------------------
\* Collaborators, as the specification describes them.

\* The static platform matrix: one platform with a package and an archive,
\* one with an archive only.
Platforms ==
    { [Variant |-> "ubuntu1804", Name |-> <<"ubuntu1804">>, Arch |-> <<"x86_64">>,
       Exts |-> << <<".", "deb">>, <<".", "tgz">> >>],
      [Variant |-> "macos", Name |-> <<"macos">>, Arch |-> <<"x86_64">>,
       Exts |-> << <<".", "zip">> >>] }

\* platform.Count()
Count == Cardinality(Platforms)

\* platform.GetByVariant(variant): the second result, found.
KnownVariant(variant) == \E p \in Platforms : p.Variant = variant

\* platform.GetByVariant(variant): the first result, when found.
GetByVariant(variant) == CHOOSE p \in Platforms : p.Variant = variant

\* pf.ArtifactExtensions()
ArtifactExtensions(pf) == pf.Exts

\* The versions a run may be given: a stable one and a pre-release.
Versions ==
    { [Major |-> "100", Minor |-> "3", Patch |-> "1", Pre |-> "", Commit |-> "abcdef"],
      [Major |-> "100", Minor |-> "3", Patch |-> "1", Pre |-> "rc0", Commit |-> "abcdef"] }

\* v.IsStable(): stable iff no pre-release tag.
IsStable(ver) == ver.Pre = ""

\* v.StringWithoutPre()
StringWithoutPre(ver) == <<ver.Major, ".", ver.Minor, ".", ver.Patch>>

\* v.String(), what %s prints.
String(ver) ==
    StringWithoutPre(ver) \o (IF ver.Pre = "" THEN <<>> ELSE <<"-", ver.Pre>>)

\* The tasks evergreen may list for a revision, Order being the place of each
\* in evergreen's listing: sign tasks of both platforms, a second sign task of
\* one of them, a sign task of a variant the matrix does not have, a sign task
\* of a patch build and a task that is no sign task.
TaskPool ==
    { [TaskID |-> "t1", Order |-> 1, Variant |-> "macos", DisplayName |-> "sign", Patch |-> FALSE],
      [TaskID |-> "t2", Order |-> 2, Variant |-> "amazon3", DisplayName |-> "sign", Patch |-> TRUE],
      [TaskID |-> "t3", Order |-> 3, Variant |-> "ubuntu1804", DisplayName |-> "sign", Patch |-> FALSE],
      [TaskID |-> "t4", Order |-> 4, Variant |-> "macos", DisplayName |-> "dist", Patch |-> FALSE],
      [TaskID |-> "t5", Order |-> 5, Variant |-> "macos", DisplayName |-> "sign", Patch |-> FALSE],
      [TaskID |-> "t6", Order |-> 6, Variant |-> "amazon3", DisplayName |-> "sign", Patch |-> FALSE] }

\* task.IsPatch()
TaskIsPatch(task) == task.Patch

SeqsUpTo(S, n) == UNION { [1..k -> S] : k \in 0..n }

\* A task list names no task twice and keeps evergreen's order.
TaskLists ==
    { ts \in SeqsUpTo(TaskPool, MaxTasks) :
        \A i, j \in 1..Len(ts) : i < j => ts[i].Order < ts[j].Order }

\* The artifact URLs evergreen may list for a task.
ArtifactURLs ==
    { <<"h", "/", "a", ".", "tgz">>,
      <<"h", "/", "a", ".", "zip">>,
      <<"h", "/", "a", ".", "deb">>,
      <<"h", ".", "d", "/", "a">> }

ArtifactLists == SeqsUpTo([URL : ArtifactURLs], MaxArtifacts)

\* The bytes an HTTP download may deliver.
Contents == {"b0", "b1"}

\* What an UploadFile call may report, given the calls so far.
NumFailures(log) == Cardinality({ i \in 1..Len(log) : ~log[i].ok })

UploadOutcomes(log) ==
    IF NumFailures(log) < MaxUploadFailures THEN {TRUE, FALSE} ELSE {TRUE}

---------------------------------------------------------------------------
\* Pure helpers of release.go.

RECURSIVE ExtFrom(_, _)
ExtFrom(path, i) ==
    IF i < 1 THEN <<>>
    ELSE IF path[i] = "/" THEN <<>>
    ELSE IF path[i] = "." THEN SubSeq(path, i, Len(path))
    ELSE ExtFrom(path, i - 1)

\* path.Ext(a.URL): the suffix from the last dot of the last path element.
Ext(path) == ExtFrom(path, Len(path))

\* "mongodb-database-tools-%s-%s-unstable%s"
unstableFile(pf, ext) ==
    <<"mongodb-database-tools-">> \o pf.Name \o <<"-">> \o pf.Arch
        \o <<"-", "unstable">> \o ext

\* "mongodb-database-tools-%s-%s-%s%s"
stableFile(pf, ver, ext) ==
    <<"mongodb-database-tools-">> \o pf.Name \o <<"-">> \o pf.Arch
        \o <<"-">> \o String(ver) \o ext

\* "mongodb-database-tools-%s-%s-latest-stable%s"
latestStableFileAsUnstable(pf, ext) ==
    <<"mongodb-database-tools-">> \o pf.Name \o <<"-">> \o pf.Arch
        \o <<"-", "unstable">> \o ext

latestStableFile(pf, ext) ==
    <<"mongodb-database-tools-">> \o pf.Name \o <<"-">> \o pf.Arch
        \o <<"-", "latest-stable">> \o ext

\* "https://fastdl.mongodb.org/tools/db/%s"
artifactURL(file) == <<"https:", "/", "/", "fastdl.mongodb.org", "/", "tools", "/", "db", "/">> \o file

feedFilename == <<"release", ".", "json">>

\* The digests: one injective function of the bytes per algorithm.
computeMD5(files, filename) == <<"md5", files[filename]>>

computeSHA1AsMD5(files, filename) == <<"md5", files[filename]>>

computeSHA1(files, filename) == <<"sha1", files[filename]>>

computeSHA256(files, filename) == <<"sha256", files[filename]>>

\* ext == ".tgz" || ext == ".zip"
IsArchiveExtTgzOnly(ext) == ext = <<".", "tgz">>

IsArchiveExt(ext) == ext = <<".", "tgz">> \/ ext = <<".", "zip">>

\* The zero download.ToolsArchive, and a ToolsDownload with nothing attached.
ZeroArchive == [URL |-> <<>>, Md5 |-> <<>>, Sha1 |-> <<>>, Sha256 |-> <<>>]

NewDownload(pf) ==
    [Name |-> pf.Name, Arch |-> pf.Arch, Archive |-> ZeroArchive, Package |-> <<>>]

\* copyFile(src, dst) on the local files.
copyFile(files, src, dst) == (dst :> files[src]) @@ files

\* downloadFile(url, dst) delivering bytes c.
downloadFile(files, dst, c) == (dst :> c) @@ files

---------------------------------------------------------------------------
\* The run.

\* The current task, its platform, the current artifact and its names.
curTask == signTasks[ti]
curPf == GetByVariant(curTask.Variant)
curExt == Ext(artifacts[ai].URL)
curUnstable == unstableFile(curPf, curExt)
curStable == stableFile(curPf, v, curExt)
curLatest == latestStableFile(curPf, curExt)

Init ==
    /\ pc = "start"
    /\ isPatch \in BOOLEAN
    /\ v \in Versions
    /\ tasks = <<>>
    /\ signTasks = <<>>
    /\ ti = 0
    /\ artifacts = <<>>
    /\ ai = 0
    /\ dl = <<>>
    /\ dls = <<>>
    /\ fs = <<>>
    /\ feedFile = <<>>
    /\ uploads = <<>>
    /\ fatal = ""
    /\ cmd = "upload-release"
    /\ bpc = "idle"
    /\ bpf = [Name |-> "", OS |-> "", Pkg |-> "", Arch |-> <<>>]
    /\ cv = [Major |-> 0, Minor |-> 0, Patch |-> 0, Pre |-> ""]
    /\ cwd = <<"mongo-tools">>
    /\ cur = <<>>
    /\ disk = <<>>
    /\ runs = <<>>
    /\ tmpl = <<>>
    /\ bfatal = ""

Fatal(msg) == pc' = "fatal" /\ fatal' = msg

\* One awsClient.UploadFile call: its outcome is recorded and discarded.
UploadFile(file, content, ok) ==
    uploads' = Append(uploads, [file |-> file, content |-> content, ok |-> ok,
                                task |-> ti, art |-> ai])

\* if env.EvgIsPatch() { fmt.Println(...) }: nothing but the message.
CheckPatch ==
    /\ pc = "start"
    /\ pc' = "getTasks"
    /\ UNCHANGED build
    /\ UNCHANGED <<isPatch, v, tasks, signTasks, ti, artifacts, ai, dl, dls, fs,
                   feedFile, uploads, fatal>>

GetTasks ==
    /\ pc = "getTasks"
    /\ \E ts \in TaskLists : tasks' = ts
    /\ pc' = "filter"
    /\ UNCHANGED build
    /\ UNCHANGED <<isPatch, v, signTasks, ti, artifacts, ai, dl, dls, fs,
                   feedFile, uploads, fatal>>

GetTasksErr ==
    /\ pc = "getTasks"
    /\ Fatal("get evergreen tasks")
    /\ UNCHANGED build
    /\ UNCHANGED <<isPatch, v, tasks, signTasks, ti, artifacts, ai, dl, dls, fs,
                   feedFile, uploads>>

\* if task.IsPatch() || task.DisplayName != "sign" { continue }
SkipTaskOrUnknown(task) ==
    TaskIsPatch(task) \/ task.DisplayName # "sign" \/ ~KnownVariant(task.Variant)

SkipTask(task) == TaskIsPatch(task) \/ task.DisplayName # "sign"

\* One iteration of the filter loop.
FilterTask ==
    /\ pc = "filter"
    /\ tasks # <<>>
    /\ LET task == Head(tasks) IN
         IF SkipTask(task)
         THEN /\ tasks' = Tail(tasks)
              /\ UNCHANGED <<pc, signTasks, fatal>>
         ELSE IF ~KnownVariant(task.Variant)
         THEN /\ Fatal("found sign task with unknown variant")
              /\ UNCHANGED <<tasks, signTasks>>
         ELSE /\ signTasks' = Append(signTasks, task)
              /\ tasks' = Tail(tasks)
              /\ UNCHANGED <<pc, fatal>>
    /\ UNCHANGED build
    /\ UNCHANGED <<isPatch, v, ti, artifacts, ai, dl, dls, fs, feedFile, uploads>>

\* len(signTasks) != platform.Count()
CountMismatchFewer(n) == n < Count

CountMismatch(n) == n # Count

CheckCount ==
    /\ pc = "filter"
    /\ tasks = <<>>
    /\ IF CountMismatch(Len(signTasks))
       THEN Fatal("found n sign tasks, but expected m release platforms")
       ELSE pc' = "getClient" /\ UNCHANGED fatal
    /\ UNCHANGED build
    /\ UNCHANGED <<isPatch, v, tasks, signTasks, ti, artifacts, ai, dl, dls, fs,
                   feedFile, uploads>>

GetClient ==
    /\ pc = "getClient"
    /\ pc' = "loop"
    /\ ti' = 1
    /\ UNCHANGED build
    /\ UNCHANGED <<isPatch, v, tasks, signTasks, artifacts, ai, dl, dls, fs,
                   feedFile, uploads, fatal>>

GetClientErr ==
    /\ pc = "getClient"
    /\ Fatal("get aws client")
    /\ UNCHANGED build
    /\ UNCHANGED <<isPatch, v, tasks, signTasks, ti, artifacts, ai, dl, dls, fs,
                   feedFile, uploads>>

\* Head of the upload loop: the platform, the artifact list and its length check.
NextTask ==
    /\ pc = "loop"
    /\ ti <= Len(signTasks)
    /\ \E arts \in ArtifactLists :
         IF ~KnownVariant(curTask.Variant)
         THEN /\ pc' = "panic"
              /\ UNCHANGED <<artifacts, ai, dl, fatal>>
         ELSE IF Len(arts) # Len(ArtifactExtensions(curPf))
         THEN /\ Fatal("expected n artifacts but found m")
              /\ UNCHANGED <<artifacts, ai, dl>>
         ELSE /\ artifacts' = arts
              /\ ai' = 1
              /\ dl' = NewDownload(curPf)
              /\ pc' = "artifact"
              /\ UNCHANGED fatal
    /\ UNCHANGED build
    /\ UNCHANGED <<isPatch, v, tasks, signTasks, ti, dls, fs, feedFile, uploads>>

GetArtifactsErr ==
    /\ pc = "loop"
    /\ ti <= Len(signTasks)
    /\ KnownVariant(curTask.Variant)
    /\ Fatal("getting artifacts list")
    /\ UNCHANGED build
    /\ UNCHANGED <<isPatch, v, tasks, signTasks, ti, artifacts, ai, dl, dls, fs,
                   feedFile, uploads>>

\* The checksum-bearing record of the current artifact, read from `files`.
NewRecord(files) ==
    [URL |-> artifactURL(curStable),
     Md5 |-> computeMD5(files, curLatest),
     Sha1 |-> computeSHA1(files, curLatest),
     Sha256 |-> computeSHA256(files, curLatest)]

\* The local files after downloadFile and, for a stable version, the two copies.
Fetched(c) ==
    LET got == downloadFile(fs, curUnstable, c) IN
    IF IsStable(v)
    THEN copyFile(copyFile(got, curUnstable, curStable), curUnstable, curLatest)
    ELSE got

\* dl after the record of the current artifact is attached by its extension.
Attach(d, ext, rec) ==
    IF IsArchiveExt(ext)
    THEN [d EXCEPT !.Archive = rec]
    ELSE [d EXCEPT !.Package = <<rec>>]

\* One artifact up to its first upload: downloadFile, then for a stable
\* version the two copyFile calls, the three digests of latestStableFile and
\* the record attached as Archive or Package.  The local file operations
\* (copy, read) are taken to succeed.
Download ==
    /\ pc = "artifact"
    /\ ai <= Len(artifacts)
    /\ \E c \in Contents :
         /\ fs' = Fetched(c)
         /\ dl' = IF IsStable(v) THEN Attach(dl, curExt, NewRecord(Fetched(c))) ELSE dl
    /\ pc' = "upUnstable"
    /\ UNCHANGED build
    /\ UNCHANGED <<isPatch, v, tasks, signTasks, ti, artifacts, ai, dls,
                   feedFile, uploads, fatal>>

\* http.Get or io.Copy fails after os.Create truncated the file.
DownloadErr ==
    /\ pc = "artifact"
    /\ ai <= Len(artifacts)
    /\ fs' = downloadFile(fs, curUnstable, "")
    /\ Fatal("download release file")
    /\ UNCHANGED build
    /\ UNCHANGED <<isPatch, v, tasks, signTasks, ti, artifacts, ai, dl, dls,
                   feedFile, uploads>>

UploadUnstable ==
    /\ pc = "upUnstable"
    /\ \E ok \in UploadOutcomes(uploads) : UploadFile(curUnstable, fs[curUnstable], ok)
    /\ IF IsStable(v)
       THEN pc' = "upStable" /\ UNCHANGED ai
       ELSE pc' = "artifact" /\ ai' = ai + 1
    /\ UNCHANGED build
    /\ UNCHANGED <<isPatch, v, tasks, signTasks, ti, artifacts, dl, dls, fs,
                   feedFile, fatal>>

UploadStable ==
    /\ pc = "upStable"
    /\ \E ok \in UploadOutcomes(uploads) : UploadFile(curStable, fs[curStable], ok)
    /\ pc' = "upLatest"
    /\ UNCHANGED build
    /\ UNCHANGED <<isPatch, v, tasks, signTasks, ti, artifacts, ai, dl, dls, fs,
                   feedFile, fatal>>

UploadLatestStable ==
    /\ pc = "upLatest"
    /\ \E ok \in UploadOutcomes(uploads) : UploadFile(curLatest, fs[curLatest], ok)
    /\ pc' = "artifact"
    /\ ai' = ai + 1
    /\ UNCHANGED build
    /\ UNCHANGED <<isPatch, v, tasks, signTasks, ti, artifacts, dl, dls, fs,
                   feedFile, fatal>>

\* dls = append(dls, dl), end of one iteration of the upload loop.
TaskDone ==
    /\ pc = "artifact"
    /\ ai > Len(artifacts)
    /\ dls' = Append(dls, dl)
    /\ ti' = ti + 1
    /\ ai' = 0
    /\ pc' = "loop"
    /\ UNCHANGED build
    /\ UNCHANGED <<isPatch, v, tasks, signTasks, artifacts, dl, fs,
                   feedFile, uploads, fatal>>

\* The download.JSONFeed written to release.json.
Feed == [Versions |-> << [Version |-> StringWithoutPre(v), Downloads |-> dls] >>]

\* After the loop, a stable version: release.json is created and encoded.
WriteFeed ==
    /\ pc = "loop"
    /\ ti > Len(signTasks)
    /\ IsStable(v)
    /\ feedFile' = <<Feed>>
    /\ pc' = "upFeed"
    /\ UNCHANGED build
    /\ UNCHANGED <<isPatch, v, tasks, signTasks, ti, artifacts, ai, dl, dls, fs,
                   uploads, fatal>>

WriteFeedErr ==
    /\ pc = "loop"
    /\ ti > Len(signTasks)
    /\ IsStable(v)
    /\ Fatal("create release.json")
    /\ UNCHANGED build
    /\ UNCHANGED <<isPatch, v, tasks, signTasks, ti, artifacts, ai, dl, dls, fs,
                   feedFile, uploads>>

\* After the loop, a version that is not stable: nothing more to do.
Finish ==
    /\ pc = "loop"
    /\ ti > Len(signTasks)
    /\ ~IsStable(v)
    /\ pc' = "done"
    /\ UNCHANGED build
    /\ UNCHANGED <<isPatch, v, tasks, signTasks, ti, artifacts, ai, dl, dls, fs,
                   feedFile, uploads, fatal>>

UploadFeed ==
    /\ pc = "upFeed"
    /\ \E ok \in UploadOutcomes(uploads) : UploadFile(feedFilename, "json", ok)
    /\ pc' = "done"
    /\ UNCHANGED build
    /\ UNCHANGED <<isPatch, v, tasks, signTasks, ti, artifacts, ai, dl, dls, fs,
                   feedFile, fatal>>

Next ==
    \/ CheckPatch
    \/ GetTasks
    \/ GetTasksErr
    \/ FilterTask
    \/ CheckCount
    \/ GetClient
    \/ GetClientErr
    \/ NextTask
    \/ GetArtifactsErr
    \/ Download
    \/ DownloadErr
    \/ UploadUnstable
    \/ UploadStable
    \/ UploadLatestStable
    \/ TaskDone
    \/ WriteFeed
    \/ WriteFeedErr
    \/ UploadFeed
    \/ Finish

Spec == Init /\ [][Next]_vars

---------------------------------------------------------------------------
\* The packaging subcommands: build-packages and list-deps.

\* The platforms platform.GetFromEnv can answer: name, OS family, package
\* kind ("" is none) and architecture.
EnvPlatforms ==
    { [Name |-> "ubuntu1804", OS |-> "linux", Pkg |-> "deb", Arch |-> <<"x86_64">>],
      [Name |-> "ubuntu1804-arm64", OS |-> "linux", Pkg |-> "deb", Arch |-> <<"aarch64">>],
      [Name |-> "rhel70", OS |-> "linux", Pkg |-> "rpm", Arch |-> <<"x86_64">>],
      [Name |-> "linux-generic", OS |-> "linux", Pkg |-> "", Arch |-> <<"x86_64">>],
      [Name |-> "macos", OS |-> "darwin", Pkg |-> "", Arch |-> <<"x86_64">>],
      [Name |-> "windows", OS |-> "windows", Pkg |-> "msi", Arch |-> <<"x86_64">>] }

\* No platform: the value of pf in a run that never asks for one.
NoPlatform == [Name |-> "", OS |-> "", Pkg |-> "", Arch |-> <<>>]

\* pf.DebianArch(): the Debian name of the architecture.
DebianArch(p) ==
    IF p.Arch = <<"x86_64">> THEN <<"amd64">>
    ELSE IF p.Arch = <<"aarch64">> THEN <<"arm64">>
    ELSE p.Arch

\* The versions version.GetCurrent can answer, with numeric parts.
CurrentVersions ==
    { [Major |-> mj, Minor |-> 3, Patch |-> 1, Pre |-> pre] :
        mj \in {100, 101}, pre \in {"", "rc0"} }

\* No version: the value of cv in a run that never asks for one.
NoVersion == [Major |-> 0, Minor |-> 0, Patch |-> 0, Pre |-> ""]

\* The decimal digit d as a character.
Digit(d) == <<"0", "1", "2", "3", "4", "5", "6", "7", "8", "9">>[d + 1]

\* fmt.Sprintf("%d", n) for n >= 0: the decimal digits of n.
RECURSIVE Itoa(_)
Itoa(n) == IF n < 10 THEN <<Digit(n)>> ELSE Itoa(n \div 10) \o <<Digit(n % 10)>>

\* v.StringWithoutPre() and v.String() of a version with numeric parts.
NumStringWithoutPre(ver) ==
    Itoa(ver.Major) \o <<".">> \o Itoa(ver.Minor) \o <<".">> \o Itoa(ver.Patch)
NumString(ver) ==
    IF ver.Pre = "" THEN NumStringWithoutPre(ver)
    ELSE NumStringWithoutPre(ver) \o <<"-", ver.Pre>>

\* v.RPMRelease(): the release field of the RPM.
RPMRelease(ver) == IF ver.Pre = "" THEN <<"1">> ELSE <<"0", ".", ver.Pre>>

\* The placeholder tokens of the package metadata templates.
TOOLS_VERSION == "@TOOLS_VERSION@"
TOOLS_RELEASE == "@TOOLS_RELEASE@"
ARCHITECTURE == "@ARCHITECTURE@"
Placeholders == {TOOLS_VERSION, TOOLS_RELEASE, ARCHITECTURE}

\* The contents of installer/rpm/<spec> and installer/deb/control: any text
\* of up to MaxTemplateLen pieces, each a placeholder or literal text.
Templates == SeqsUpTo(Placeholders \cup {"text"}, MaxTemplateLen)

\* strings.Replace(s, old, new, n): the first n occurrences of old become
\* new, every occurrence when n < 0.
RECURSIVE Replace(_, _, _, _)
Replace(s, old, new, n) ==
    IF s = <<>> \/ n = 0 THEN s
    ELSE IF Head(s) = old THEN new \o Replace(Tail(s), old, new, n - 1)
    ELSE <<Head(s)>> \o Replace(Tail(s), old, new, n)

\* createSpecFile: the spec file buildRPM writes from template t.
specContent(t, ver, p) ==
    Replace(Replace(Replace(t, TOOLS_VERSION, NumStringWithoutPre(ver), 0 - 1),
                    TOOLS_RELEASE, RPMRelease(ver), 0 - 1),
            ARCHITECTURE, p.Arch, 0 - 1)

\* createControlFile: the control file buildDeb writes from template t.
controlContent(t, ver, p) ==
    Replace(Replace(t, TOOLS_VERSION, NumString(ver), 0 - 1),
            ARCHITECTURE, DebianArch(p), 1)

\* The directory main starts in, and $HOME.
TopDir == <<"mongo-tools">>
Home == <<"home">>

\* A relative path resolved against directory dir.
RECURSIVE Resolve(_, _)
Resolve(dir, rel) ==
    IF rel = <<>> THEN dir
    ELSE IF Head(rel) = ".." THEN Resolve(SubSeq(dir, 1, Len(dir) - 1), Tail(rel))
    ELSE Resolve(Append(dir, Head(rel)), Tail(rel))

\* The files written so far with file path holding content c.
WriteFile(d, path, c) == (path :> c) @@ d

\* if versionLabel != lastVersionLabel
lastVersionLabel == <<"1", "0", "0">>
versionLabelAlwaysLast(ver) == lastVersionLabel
versionLabel(ver) == Itoa(ver.Major)

\* if pf.OS != platform.OSLinux / platform.OSWindows
IsLinuxAlways(p) == TRUE
IsLinux(p) == p.OS = "linux"
IsWindows(p) == p.OS = "windows"

BuildFatal(msg) == bpc' = "fatal" /\ bfatal' = msg

\* The start of a packaging subcommand: main has the command, the
\* environment has a platform and a version, nothing is written or run.
BuildInit ==
    /\ cmd \in {"build-packages", "list-deps"}
    /\ bpc = "main"
    /\ bpf \in EnvPlatforms
    /\ cv \in CurrentVersions
    /\ cwd = TopDir
    /\ cur = <<>>
    /\ disk = <<>>
    /\ runs = <<>>
    /\ tmpl = <<>>
    /\ bfatal = ""
    /\ pc = "idle"
    /\ isPatch = FALSE
    /\ v = NoVersion
    /\ tasks = <<>>
    /\ signTasks = <<>>
    /\ ti = 0
    /\ artifacts = <<>>
    /\ ai = 0
    /\ dl = <<>>
    /\ dls = <<>>
    /\ fs = <<>>
    /\ feedFile = <<>>
    /\ uploads = <<>>
    /\ fatal = ""

\* switch cmd: build-packages is buildMSI then buildLinuxPackages, list-deps
\* is listLinuxDeps.
Main ==
    /\ bpc = "main"
    /\ bpc' = IF cmd = "build-packages" THEN "buildMSI" ELSE "listLinuxDeps"
    /\ UNCHANGED <<cmd, bpf, cv, cwd, cur, disk, runs, tmpl, bfatal>>
    /\ UNCHANGED release

\* platform.GetFromEnv answers an error.
GetFromEnvErr ==
    /\ bpc \in {"buildMSI", "buildLinuxPackages", "listLinuxDeps"}
    /\ BuildFatal("get platform")
    /\ UNCHANGED <<cmd, bpf, cv, cwd, cur, disk, runs, tmpl>>
    /\ UNCHANGED release

\* useWorkingDir(dir): the directory is emptied and entered, and the
\* directory read after entering it is what cdBack will go to.
useWorkingDir(dir) ==
    /\ disk' = WriteFile(disk, Resolve(cwd, <<dir>>), <<"dir">>)
    /\ cwd' = Resolve(cwd, <<dir>>)
    /\ cur' = cwd'

\* cdBack: os.Chdir(cur).
cdBack == cwd' = cur

\* buildMSI up to the working directory: nothing on a platform that is not
\* Windows.
EnterMSI ==
    /\ bpc = "buildMSI"
    /\ IF ~IsWindows(bpf)
       THEN /\ bpc' = "buildLinuxPackages"
            /\ UNCHANGED <<cwd, cur, disk>>
       ELSE /\ useWorkingDir("msi_build")
            /\ bpc' = "msi.stage"
    /\ UNCHANGED <<cmd, bpf, cv, runs, tmpl, bfatal>>
    /\ UNCHANGED release

\* The dlls are copied and the static files, msi files and binaries linked
\* into the working directory.
MSIStage ==
    /\ bpc = "msi.stage"
    /\ disk' = WriteFile(WriteFile(WriteFile(disk,
                   Resolve(cwd, <<"libsasl.dll">>), <<"dll">>),
                   Resolve(cwd, <<"README.md">>), <<"static">>),
                   Resolve(cwd, <<"Product.wxs">>), <<"wxs">>)
    /\ bpc' = "msi.version"
    /\ UNCHANGED <<cmd, bpf, cv, cwd, cur, runs, tmpl, bfatal>>
    /\ UNCHANGED release

\* The upgrade-code check: a major version label other than the last one is
\* fatal.
MSIVersionCheck ==
    /\ bpc = "msi.version"
    /\ IF versionLabel(cv) # lastVersionLabel
       THEN BuildFatal("msiUpgradeCode should be up-to-date")
       ELSE bpc' = "msi.candle" /\ UNCHANGED bfatal
    /\ UNCHANGED <<cmd, bpf, cv, cwd, cur, disk, runs, tmpl>>
    /\ UNCHANGED release

\* run(candle, ...)
MSICandle ==
    /\ bpc = "msi.candle"
    /\ runs' = Append(runs, "candle.exe")
    /\ bpc' = "msi.light"
    /\ UNCHANGED <<cmd, bpf, cv, cwd, cur, disk, tmpl, bfatal>>
    /\ UNCHANGED release

MSICandleErr ==
    /\ bpc = "msi.candle"
    /\ runs' = Append(runs, "candle.exe")
    /\ BuildFatal("run candle.exe")
    /\ UNCHANGED <<cmd, bpf, cv, cwd, cur, disk, tmpl>>
    /\ UNCHANGED release

\* run(light, ..., -out release.msi, ...)
MSILight ==
    /\ bpc = "msi.light"
    /\ runs' = Append(runs, "light.exe")
    /\ disk' = WriteFile(disk, Resolve(cwd, <<"release.msi">>), <<"msi">>)
    /\ bpc' = "msi.link"
    /\ UNCHANGED <<cmd, bpf, cv, cwd, cur, tmpl, bfatal>>
    /\ UNCHANGED release

MSILightErr ==
    /\ bpc = "msi.light"
    /\ runs' = Append(runs, "light.exe")
    /\ BuildFatal("run light.exe")
    /\ UNCHANGED <<cmd, bpf, cv, cwd, cur, disk, tmpl>>
    /\ UNCHANGED release

\* os.Link(output, ../release.msi), then buildMSI returns and the deferred
\* cdBack runs.
MSILink ==
    /\ bpc = "msi.link"
    /\ disk' = WriteFile(disk, Resolve(cwd, <<"..", "release.msi">>),
                         disk[Resolve(cwd, <<"release.msi">>)])
    /\ cdBack
    /\ bpc' = "buildLinuxPackages"
    /\ UNCHANGED <<cmd, bpf, cv, cur, runs, tmpl, bfatal>>
    /\ UNCHANGED release

\* buildLinuxPackages: nothing on a platform that is not Linux, buildRPM or
\* buildDeb by the package kind, fatal for any other kind.
EnterLinuxPackages ==
    /\ bpc = "buildLinuxPackages"
    /\ IF ~IsLinux(bpf) THEN bpc' = "done" /\ UNCHANGED bfatal
       ELSE IF bpf.Pkg = "rpm" THEN bpc' = "rpm.workdir" /\ UNCHANGED bfatal
       ELSE IF bpf.Pkg = "deb" THEN bpc' = "deb.workdir" /\ UNCHANGED bfatal
       ELSE BuildFatal("found linux platform with no Pkg value")
    /\ UNCHANGED <<cmd, bpf, cv, cwd, cur, disk, runs, tmpl>>
    /\ UNCHANGED release

\* buildRPM: the working directory.
RPMWorkDir ==
    /\ bpc = "rpm.workdir"
    /\ useWorkingDir("rpm_build")
    /\ bpc' = "rpm.tar"
    /\ UNCHANGED <<cmd, bpf, cv, runs, tmpl, bfatal>>
    /\ UNCHANGED release

\* createTar: the source tarball under $HOME/rpmbuild/SOURCES.
RPMTar ==
    /\ bpc = "rpm.tar"
    /\ disk' = WriteFile(disk, Resolve(Home, <<"rpmbuild", "SOURCES",
                                              "mongodb-database-tools.tar.gz">>),
                         <<"tar">>)
    /\ bpc' = "rpm.spec"
    /\ UNCHANGED <<cmd, bpf, cv, cwd, cur, runs, tmpl, bfatal>>
    /\ UNCHANGED release

\* createSpecFile: the template is read and the spec file written.
RPMSpecFile ==
    /\ bpc = "rpm.spec"
    /\ \E t \in Templates :
          /\ tmpl' = t
          /\ disk' = WriteFile(disk, Resolve(cwd, <<"mongodb-database-tools.spec">>),
                               specContent(t, cv, bpf))
    /\ bpc' = "rpm.build"
    /\ UNCHANGED <<cmd, bpf, cv, cwd, cur, runs, bfatal>>
    /\ UNCHANGED release

\* run("rpmbuild", "-bb", specFile)
RPMBuild ==
    /\ bpc = "rpm.build"
    /\ runs' = Append(runs, "rpmbuild")
    /\ disk' = WriteFile(disk, Resolve(Home, <<"rpmbuild", "RPMS", "output.rpm">>),
                         <<"rpm">>)
    /\ bpc' = "rpm.copy"
    /\ UNCHANGED <<cmd, bpf, cv, cwd, cur, tmpl, bfatal>>
    /\ UNCHANGED release

RPMBuildErr ==
    /\ bpc = "rpm.build"
    /\ runs' = Append(runs, "rpmbuild")
    /\ BuildFatal("rpmbuild")
    /\ UNCHANGED <<cmd, bpf, cv, cwd, cur, disk, tmpl>>
    /\ UNCHANGED release

\* copyFile(outputPath, ../release.rpm), then buildRPM returns and the
\* deferred cdBack runs.
RPMCopy ==
    /\ bpc = "rpm.copy"
    /\ disk' = copyFile(disk, Resolve(Home, <<"rpmbuild", "RPMS", "output.rpm">>),
                        Resolve(cwd, <<"..", "release.rpm">>))
    /\ cdBack
    /\ bpc' = "done"
    /\ UNCHANGED <<cmd, bpf, cv, cur, runs, tmpl, bfatal>>
    /\ UNCHANGED release

\* buildDeb: the working directory.
DebWorkDir ==
    /\ bpc = "deb.workdir"
    /\ useWorkingDir("deb_build")
    /\ bpc' = "deb.stage"
    /\ UNCHANGED <<cmd, bpf, cv, runs, tmpl, bfatal>>
    /\ UNCHANGED release

\* The package tree: the binaries and static files are linked into it.
DebStage ==
    /\ bpc = "deb.stage"
    /\ disk' = WriteFile(disk, Resolve(cwd, <<"release", "usr", "bin", "mongodump">>),
                         <<"bin">>)
    /\ bpc' = "deb.control"
    /\ UNCHANGED <<cmd, bpf, cv, cwd, cur, runs, tmpl, bfatal>>
    /\ UNCHANGED release

\* createControlFile: the template is read and the control file written,
\* then linked into DEBIAN/.
DebControlFile ==
    /\ bpc = "deb.control"
    /\ \E t \in Templates :
          /\ tmpl' = t
          /\ disk' = WriteFile(WriteFile(disk, Resolve(cwd, <<"control">>),
                                         controlContent(t, cv, bpf)),
                               Resolve(cwd, <<"release", "DEBIAN", "control">>),
                               controlContent(t, cv, bpf))
    /\ bpc' = "deb.build"
    /\ UNCHANGED <<cmd, bpf, cv, cwd, cur, runs, bfatal>>
    /\ UNCHANGED release

\* run("dpkg", "-D1", "-b", releaseName, output)
DebBuild ==
    /\ bpc = "deb.build"
    /\ runs' = Append(runs, "dpkg")
    /\ disk' = WriteFile(disk, Resolve(cwd, <<"release.deb">>), <<"deb">>)
    /\ bpc' = "deb.link"
    /\ UNCHANGED <<cmd, bpf, cv, cwd, cur, tmpl, bfatal>>
    /\ UNCHANGED release

DebBuildErr ==
    /\ bpc = "deb.build"
    /\ runs' = Append(runs, "dpkg")
    /\ BuildFatal("run dpkg")
    /\ UNCHANGED <<cmd, bpf, cv, cwd, cur, disk, tmpl>>
    /\ UNCHANGED release

\* os.Link(output, ../release.deb), then buildDeb returns and the deferred
\* cdBack runs.
DebLink ==
    /\ bpc = "deb.link"
    /\ disk' = WriteFile(disk, Resolve(cwd, <<"..", "release.deb">>),
                         disk[Resolve(cwd, <<"release.deb">>)])
    /\ cdBack
    /\ bpc' = "done"
    /\ UNCHANGED <<cmd, bpf, cv, cur, runs, tmpl, bfatal>>
    /\ UNCHANGED release

\* listLinuxDeps: nothing on a platform that is not Linux.
EnterListDeps ==
    /\ bpc = "listLinuxDeps"
    /\ bpc' = IF ~IsLinux(bpf) THEN "done" ELSE "deps.ldd"
    /\ UNCHANGED <<cmd, bpf, cv, cwd, cur, disk, runs, tmpl, bfatal>>
    /\ UNCHANGED release

\* getLibraryPaths: run("ldd", bin/mongodump)
DepsLdd ==
    /\ bpc = "deps.ldd"
    /\ runs' = Append(runs, "ldd")
    /\ bpc' = "deps.query"
    /\ UNCHANGED <<cmd, bpf, cv, cwd, cur, disk, tmpl, bfatal>>
    /\ UNCHANGED release

DepsLddErr ==
    /\ bpc = "deps.ldd"
    /\ runs' = Append(runs, "ldd")
    /\ BuildFatal("ldd")
    /\ UNCHANGED <<cmd, bpf, cv, cwd, cur, disk, tmpl>>
    /\ UNCHANGED release

\* switch pf.Pkg: the package of each library is asked of rpm or dpkg; any
\* other kind is fatal.
DepsQuery ==
    /\ bpc = "deps.query"
    /\ IF bpf.Pkg = "rpm"
       THEN runs' = Append(runs, "rpm") /\ bpc' = "done" /\ UNCHANGED bfatal
       ELSE IF bpf.Pkg = "deb"
       THEN runs' = Append(runs, "dpkg") /\ bpc' = "done" /\ UNCHANGED bfatal
       ELSE BuildFatal("linux platform is neither deb nor rpm based")
            /\ UNCHANGED runs
    /\ UNCHANGED <<cmd, bpf, cv, cwd, cur, disk, tmpl>>
    /\ UNCHANGED release

DepsQueryErr ==
    /\ bpc = "deps.query"
    /\ bpf.Pkg \in {"rpm", "deb"}
    /\ runs' = Append(runs, IF bpf.Pkg = "rpm" THEN "rpm" ELSE "dpkg")
    /\ BuildFatal("which package provides the library")
    /\ UNCHANGED <<cmd, bpf, cv, cwd, cur, disk, tmpl>>
    /\ UNCHANGED release

BuildNext ==
    \/ Main
    \/ GetFromEnvErr
    \/ EnterMSI
    \/ MSIStage
    \/ MSIVersionCheck
    \/ MSICandle
    \/ MSICandleErr
    \/ MSILight
    \/ MSILightErr
    \/ MSILink
    \/ EnterLinuxPackages
    \/ RPMWorkDir
    \/ RPMTar
    \/ RPMSpecFile
    \/ RPMBuild
    \/ RPMBuildErr
    \/ RPMCopy
    \/ DebWorkDir
    \/ DebStage
    \/ DebControlFile
    \/ DebBuild
    \/ DebBuildErr
    \/ DebLink
    \/ EnterListDeps
    \/ DepsLdd
    \/ DepsLddErr
    \/ DepsQuery
    \/ DepsQueryErr

BuildSpec == BuildInit /\ [][BuildNext]_vars

---------------------------------------------------------------------------
\* Properties of uploadRelease.

\* The run is past the filter loop and the count check.
Reconciled == pc \in {"getClient", "loop", "artifact", "upUnstable", "upStable",
                      "upLatest", "upFeed", "done"}

\* task is one the filter loop does not skip.
IsSignTask(task) == ~task.Patch /\ task.DisplayName = "sign"

\* C1: once the filter loop has ended, a number of accepted sign tasks other
\* than platform.Count(), larger or smaller, means the run has ended in
\* log.Fatal with no UploadFile call made and no file downloaded.
C1_CountMismatchIsFatal ==
    (pc \notin {"start", "getTasks", "filter"} /\ Len(signTasks) # Count)
        => (pc = "fatal" /\ uploads = <<>> /\ fs = <<>> /\ feedFile = <<>>)

\* C1 witness: the count check has ended a run that accepted more sign tasks
\* than there are platforms.
C1_Witness ==
    /\ pc = "fatal"
    /\ fatal = "found n sign tasks, but expected m release platforms"
    /\ Len(signTasks) > Count

\* C2: after reconciliation every platform of the matrix has exactly one
\* accepted sign task.
C2_ExactCover ==
    Reconciled =>
        \A p \in Platforms :
            Cardinality({ i \in 1..Len(signTasks) : signTasks[i].Variant = p.Variant }) = 1

\* C3: once an UploadFile call has failed, no later UploadFile call is made:
\* a failed call can only be the last one of the run.
C3_NoUploadAfterFailure ==
    \A i \in 1..Len(uploads) : ~uploads[i].ok => i = Len(uploads)

\* Two accepted sign tasks have the same variant.
DuplicateVariant ==
    \E i, j \in 1..Len(signTasks) : i # j /\ signTasks[i].Variant = signTasks[j].Variant

\* The UploadFile calls that uploaded release.json.
FeedUploads == { i \in 1..Len(uploads) : uploads[i].file = feedFilename }

\* The records a ToolsDownload carries.
RecordsOf(d) ==
    (IF d.Archive = ZeroArchive THEN {} ELSE {d.Archive})
        \cup { d.Package[k] : k \in 1..Len(d.Package) }

\* The records of every download of the feed written to release.json.
FeedRecords ==
    UNION { UNION { RecordsOf(feedFile[1].Versions[n].Downloads[k]) :
                      k \in 1..Len(feedFile[1].Versions[n].Downloads) } :
              n \in 1..Len(feedFile[1].Versions) }

\* C4: release.json is uploaded last, after every artifact upload of the run
\* has reported success, and every URL the feed names is that of a file
\* already uploaded.
C4_FeedUploadedLast ==
    \A i \in FeedUploads :
        /\ i = Len(uploads)
        /\ \A j \in 1..(i - 1) : uploads[j].ok
        /\ \A r \in FeedRecords :
             \E j \in 1..(i - 1) : uploads[j].ok /\ artifactURL(uploads[j].file) = r.URL

\* C5: when the artifact-count check ends the run, no file has been uploaded.
C5_ArtifactCountBeforePublish ==
    fatal = "expected n artifacts but found m" => uploads = <<>>

\* C6: a step of the filter loop at a non-patch sign task of unknown variant
\* ends the run in log.Fatal, with nothing downloaded and nothing uploaded,
\* whatever the number of sign tasks.
C6_UnknownVariantIsFatal ==
    [][ (pc = "filter" /\ tasks # <<>> /\ IsSignTask(Head(tasks))
            /\ ~(\E p \in Platforms : p.Variant = Head(tasks).Variant))
        => (pc' = "fatal" /\ uploads' = <<>> /\ fs' = <<>> /\ feedFile' = <<>>) ]_vars

\* C6 witness: the run ended at an unknown variant although the number of
\* non-patch sign tasks of the list equals platform.Count().
C6_Witness ==
    /\ pc = "fatal"
    /\ fatal = "found sign task with unknown variant"
    /\ Len(signTasks) + Cardinality({ i \in 1..Len(tasks) : IsSignTask(tasks[i]) }) = Count

\* The UploadFile calls made for artifact a of task t, and their file names.
CallsFor(t, a) == { i \in 1..Len(uploads) : uploads[i].task = t /\ uploads[i].art = a }

\* The extensions path.Ext finds in the artifact URLs.
ArtifactExts == { Ext(u) : u \in ArtifactURLs }

\* The inner loop is done with artifact a of task t.
Completed(t, a) == t < ti \/ (t = ti /\ a < ai)

\* C7: for every artifact the loop is done with, UploadFile was called with
\* exactly three distinct names (unstable, <version>, latest-stable, all with
\* the URL's extension) when the version is stable, and with the unstable
\* name alone when it is not.
C7_NamesPerArtifact ==
    \A t \in 1..Len(signTasks) :
        LET pf == GetByVariant(signTasks[t].Variant) IN
        \A a \in 1..Len(ArtifactExtensions(pf)) :
            Completed(t, a) =>
                LET n == IF v.Pre = "" THEN 3 ELSE 1
                    calls == CallsFor(t, a)
                    names == { uploads[i].file : i \in calls }
                IN /\ Cardinality(calls) = n
                   /\ Cardinality(names) = n
                   /\ \E e \in ArtifactExts :
                        /\ unstableFile(pf, e) \in names
                        /\ v.Pre = "" =>
                             /\ stableFile(pf, v, e) \in names
                             /\ latestStableFile(pf, e) \in names

\* C7 witness: a completed publish of a stable version: both platforms, three
\* artifacts, nine artifact uploads and the feed.
C7_Witness ==
    pc = "done" /\ v.Pre = "" /\ Len(uploads) = 10 /\ ~DuplicateVariant

\* The artifact fetched last, while its files are still the newest on disk.
lastArt == IF pc = "artifact" THEN ai - 1 ELSE ai

Fetching ==
    \/ pc \in {"upUnstable", "upStable", "upLatest"}
    \/ pc = "artifact" /\ ai > 1

\* C8: the three digests of the record of the artifact fetched last are those
\* of the local latest-stable file, whose bytes are those of the stable copy
\* and of every upload made of the two under their names.
C8_ChecksumsOfLatestStable ==
    (Fetching /\ v.Pre = "") =>
        LET e == Ext(artifacts[lastArt].URL)
            latest == latestStableFile(curPf, e)
            stable == stableFile(curPf, v, e)
            rec == IF e \in { <<".", "tgz">>, <<".", "zip">> }
                   THEN dl.Archive ELSE dl.Package[1]
        IN /\ rec.Md5 = <<"md5", fs[latest]>>
           /\ rec.Sha1 = <<"sha1", fs[latest]>>
           /\ rec.Sha256 = <<"sha256", fs[latest]>>
           /\ fs[stable] = fs[latest]
           /\ \A i \in CallsFor(ti, lastArt) :
                uploads[i].file \in {stable, latest} => uploads[i].content = fs[latest]

\* C8 witness: the second artifact of a task is fully uploaded, with bytes
\* other than the first one's.
C8_Witness ==
    /\ pc = "artifact" /\ v.Pre = "" /\ ai = 3
    /\ Cardinality(CallsFor(ti, 2)) = 3
    /\ \E i \in CallsFor(ti, 1) : uploads[i].content # uploads[Len(uploads)].content

\* C9: release.json is written and uploaded only for a stable version whose
\* platforms were all processed successfully; it then has one version entry
\* with exactly one ToolsDownload per platform of the matrix.
C9_FeedCoversMatrix ==
    /\ ~(v.Pre = "") => (feedFile = <<>> /\ FeedUploads = {})
    /\ feedFile # <<>> =>
         /\ v.Pre = ""
         /\ \A j \in 1..Len(uploads) : uploads[j].file # feedFilename => uploads[j].ok
         /\ Len(feedFile[1].Versions) = 1
         /\ Len(feedFile[1].Versions[1].Downloads) = Count
         /\ \A p \in Platforms :
              Cardinality({ k \in 1..Len(feedFile[1].Versions[1].Downloads) :
                              /\ feedFile[1].Versions[1].Downloads[k].Name = p.Name
                              /\ feedFile[1].Versions[1].Downloads[k].Arch = p.Arch }) = 1

\* The artifacts of the current task whose record, if any, has been attached.
Attached ==
    { a \in 1..Len(artifacts) : a < ai \/ (a = ai /\ pc \in {"upUnstable", "upStable", "upLatest"}) }

InTask == pc \in {"artifact", "upUnstable", "upStable", "upLatest"}

IsArchiveURL(u) == Ext(u) \in { <<".", "tgz">>, <<".", "zip">> }

\* The record the stable name of artifact a gets.
URLOf(a) == artifactURL(stableFile(curPf, v, Ext(artifacts[a].URL)))

\* C10 as claimed: every artifact whose record was to be attached is in the
\* ToolsDownload of its platform, as Archive when its extension is .tgz or
\* .zip and as Package otherwise.
C10_EveryArtifactRepresented ==
    InTask =>
        \A a \in Attached :
            IF IsArchiveURL(artifacts[a].URL)
            THEN dl.Archive.URL = URLOf(a)
            ELSE dl.Package # <<>> /\ dl.Package[1].URL = URLOf(a)

\* C10 as amended: for a stable version the Archive is the record of the last
\* artifact so far whose extension is .tgz or .zip, the Package that of the
\* last artifact so far with any other extension (none included), and either
\* is empty when there was no such artifact; for a version that is not stable
\* nothing is attached.
C10_LastOfEachClassKept ==
    InTask =>
        LET arch == { a \in Attached : IsArchiveURL(artifacts[a].URL) }
            pkg == { a \in Attached : ~IsArchiveURL(artifacts[a].URL) }
            Last(S) == CHOOSE a \in S : \A b \in S : b <= a
        IN IF v.Pre = ""
           THEN /\ IF arch = {} THEN dl.Archive = ZeroArchive
                   ELSE dl.Archive.URL = URLOf(Last(arch))
                /\ IF pkg = {} THEN dl.Package = <<>>
                   ELSE Len(dl.Package) = 1 /\ dl.Package[1].URL = URLOf(Last(pkg))
           ELSE dl.Archive = ZeroArchive /\ dl.Package = <<>>

\* C10 witness: a stable version, a task with an archive and a package, both
\* attached.
C10_Witness ==
    /\ pc = "artifact" /\ v.Pre = "" /\ ai = 3
    /\ dl.Archive # ZeroArchive /\ dl.Package # <<>>
    /\ IsArchiveURL(artifacts[1].URL) # IsArchiveURL(artifacts[2].URL)

---------------------------------------------------------------------------
\* Properties of the packaging subcommands and of a patch build.

\* The external tools run so far.
Ran == { runs[i] : i \in 1..Len(runs) }

\* The file names (last path elements) written so far.
Written == { p[Len(p)] : p \in DOMAIN disk }

\* buildMSI has passed its upgrade-code check: it is at candle.exe, light.exe
\* or the link of release.msi, or it has returned.
PastUpgradeCodeCheck ==
    \/ bpc \in {"msi.candle", "msi.light", "msi.link"}
    \/ cmd = "build-packages" /\ bpc \in {"buildLinuxPackages", "done"}

\* C11: on Windows with a version whose major label is not "100", buildMSI
\* never runs candle.exe or light.exe and never writes or links release.msi,
\* and never gets past the upgrade-code check: the run ends there, fatally.
C11_StaleUpgradeCodeIsFatal ==
    (IsWindows(bpf) /\ cv.Major # 100) =>
        /\ "candle.exe" \notin Ran
        /\ "light.exe" \notin Ran
        /\ "release.msi" \notin Written
        /\ ~PastUpgradeCodeCheck

\* C11 happens: buildMSI reached the upgrade-code check with major version 101 and the run
\* ended there, the working directory already staged.
C11_Witness ==
    /\ IsWindows(bpf)
    /\ cv.Major = 101
    /\ bpc = "fatal"
    /\ bfatal = "msiUpgradeCode should be up-to-date"
    /\ "Product.wxs" \in Written

\* A step that returns from the function it entered and changes nothing else.
SilentNoOp(from, to) ==
    /\ bpc = from
    /\ bpc' = to
    /\ UNCHANGED <<cwd, cur, disk, runs, tmpl, bfatal>>

\* C12 as amended: buildMSI on a platform that is not Windows, and
\* buildLinuxPackages and listLinuxDeps on a platform that is not Linux,
\* return having run no tool and changed no file or directory; on a Linux
\* platform whose package kind is neither RPM nor DEB buildLinuxPackages
\* ends in a fatal error, and so does listLinuxDeps after it has run ldd.
\* (An operation whose platform.GetFromEnv fails has no platform: it is fatal.)
C12_OSMismatchIsSilent ==
    [][ /\ (bpc = "buildMSI" /\ bpf.OS # "windows")
            => SilentNoOp("buildMSI", "buildLinuxPackages") \/ bfatal' = "get platform"
        /\ (bpc = "buildLinuxPackages" /\ bpf.OS # "linux")
            => SilentNoOp("buildLinuxPackages", "done") \/ bfatal' = "get platform"
        /\ (bpc = "listLinuxDeps" /\ bpf.OS # "linux")
            => SilentNoOp("listLinuxDeps", "done") \/ bfatal' = "get platform"
        /\ (bpc = "buildLinuxPackages" /\ bpf.OS = "linux"
                /\ bpf.Pkg \notin {"rpm", "deb"})
            => bpc' = "fatal"
        /\ (bpc = "deps.query" /\ bpf.Pkg \notin {"rpm", "deb"})
            => bpc' = "fatal" /\ "ldd" \in Ran
      ]_vars

\* C12 happens: build-packages on macOS went through buildMSI and
\* buildLinuxPackages and ended with nothing run, written or changed.
C12_Witness ==
    /\ cmd = "build-packages"
    /\ bpf.OS = "darwin"
    /\ bpc = "done"
    /\ runs = <<>>
    /\ DOMAIN disk = {}
    /\ cwd = TopDir
    /\ bfatal = ""

\* C12 as stated: whenever the platform does not fit the operation, a
\* platform of package kind none under buildLinuxPackages included, the
\* operation returns having changed nothing and without a fatal error.
C12_KindMismatchIsSilent ==
    [][ /\ (bpc = "buildMSI" /\ bpf.OS # "windows")
            => SilentNoOp("buildMSI", "buildLinuxPackages") \/ bfatal' = "get platform"
        /\ (bpc = "buildLinuxPackages" /\ bpf.Pkg \notin {"rpm", "deb"})
            => SilentNoOp("buildLinuxPackages", "done") \/ bfatal' = "get platform"
        /\ (bpc = "listLinuxDeps" /\ bpf.OS # "linux")
            => SilentNoOp("listLinuxDeps", "done") \/ bfatal' = "get platform"
      ]_vars

\* The metadata written by the build: the spec file or the control file.
IsMetadata(p) == p[Len(p)] \in {"mongodb-database-tools.spec", "control"}

\* Template t with every placeholder replaced by its value.
RECURSIVE Substituted(_, _, _, _)
Substituted(t, ver, rel, arch) ==
    IF t = <<>> THEN <<>>
    ELSE (IF Head(t) = TOOLS_VERSION THEN ver
          ELSE IF Head(t) = TOOLS_RELEASE THEN rel
          ELSE IF Head(t) = ARCHITECTURE THEN arch
          ELSE <<Head(t)>>) \o Substituted(Tail(t), ver, rel, arch)

\* C13: every metadata file the build has written holds no placeholder and
\* is its template with each placeholder, wherever and however often it
\* occurs, replaced by the version, release and architecture of the build.
C13_NoPlaceholderLeft ==
    \A p \in DOMAIN disk :
        IsMetadata(p) =>
            /\ \A i \in 1..Len(disk[p]) : disk[p][i] \notin Placeholders
            /\ disk[p] = IF bpf.Pkg = "rpm"
                         THEN Substituted(tmpl, NumStringWithoutPre(cv),
                                          RPMRelease(cv), bpf.Arch)
                         ELSE Substituted(tmpl, NumString(cv),
                                          RPMRelease(cv), DebianArch(bpf))

\* C14: in a patch build nothing is uploaded, neither an artifact nor the
\* feed.
C14_PatchBuildUploadsNothing == isPatch => uploads = <<>>

\* C15: whenever no build function is running, the working directory is the
\* directory main started in.
C15_BackInOriginalDir ==
    bpc \in {"main", "buildMSI", "buildLinuxPackages", "listLinuxDeps", "done"}
        => cwd = TopDir

====
